---------------------------- MODULE Spec2Model ----------------------------
(***************************************************************************)
(* TestFlight-Checker: the poller (testflight_checker.py) and the parts of *)
(* the manager (testflight_manager.py) that touch the same storage file.   *)
(*                                                                         *)
(* A page text is a sequence of tokens; a token is one of the four marker  *)
(* strings the poller searches for, or "other" for any text without a      *)
(* marker.  No marker string overlaps another one, so `in` and str.find on *)
(* the page are membership and first index on the token sequence.          *)
(*                                                                         *)
(* The storage file is absent, unparseable, or holds a JSON object, kept   *)
(* as the sequence of its entries in insertion order.  An entry is a bare  *)
(* URL string (form "str") or an object with url and last_state (form      *)
(* "dict"); last_state "null" is JSON null / Python None.  An object       *)
(* without a url key has form "nourl".                                     *)
(***************************************************************************)
EXTENDS Integers, Sequences, FiniteSets, TLC

VARIABLES
    file,         \* content of apps_config.json
    apps,         \* the poller's in-memory map (main's local `apps`)
    pc,           \* the poller's position in main
    idx,          \* position of the for loop in apps.items()
    status,       \* "running", "exit0" (sys.exit(0)), "killed" (signal),
                  \* "crashed" (uncaught exception) or "stopped" (not started)
    webhook,      \* DISCORD_WEBHOOK_URL is set
    now,          \* seconds since the poller started
    cycle,        \* number of the current poll cycle
    tick,         \* observation: the last call of check_testflight_slot
    processed,    \* observation: targets checked so far in this cycle
    writes,       \* observation: save_apps calls of the poller in this cycle
    lastSentAt,   \* observation: per target, time of its last delivered notification
    undelivered,  \* observation: per target, the state whose dispatch failed
    writable,     \* the storage location can be written
    prevApps,     \* observation: the map of the run before, in the first cycle
                  \* of a run started after a completed cycle
    text,         \* a page text handed to the classifier
    current_state,\* the classifier's result for text
    mpc,          \* the manager's position in the operation it performs
    mapps,        \* the manager's in-memory map (local `apps` of an operation)
    op,           \* the operation the manager performs, with its input
    pm2,          \* pm2 is installed (is_pm2_installed)
    report,       \* observation: outcome of the manager's last operation
    given,        \* observation: the map an operation started from
    ops           \* number of manager operations so far

\* the manager's variables
mvars == <<mpc, mapps, op, pm2, report, given, ops>>

vars == <<file, apps, pc, idx, status, webhook, now, cycle, tick, processed,
          writes, lastSentAt, undelivered, writable, prevApps, text,
          current_state, mpc, mapps, op, pm2, report, given, ops>>

-----------------------------------------------------------------------------
(* Bounds of the model *)

MaxCycles == 3

MaxLen == 3
MaxOps == 1

(* Program constants *)

CHECK_INTERVAL == 60

COOLDOWN == 300

-----------------------------------------------------------------------------
(* Page texts and the classifier *)

ViewMarker == "View in TestFlight"
TestingMarker == "Testing Apps with TestFlight"
FullMarker == "This beta is full"
NotAcceptingMarker == "This beta isn't accepting any new testers"
OtherText == "other"

Tokens == {ViewMarker, TestingMarker, FullMarker, NotAcceptingMarker, OtherText}

RECURSIVE SeqsUpTo(_, _)
SeqsUpTo(S, n) ==
    IF n = 0 THEN {<<>>}
    ELSE LET shorter == SeqsUpTo(S, n - 1)
         IN  shorter \cup {Append(s, x) : s \in {t \in shorter : Len(t) = n - 1}, x \in S}

Texts == SeqsUpTo(Tokens, MaxLen)

\* marker in response.text
Contains(t, marker) == \E i \in 1..Len(t) : t[i] = marker

\* response.text.find(marker): the lowest index, -1 when absent
Find(t, marker) ==
    IF Contains(t, marker)
    THEN CHOOSE i \in 1..Len(t) : t[i] = marker /\ \A j \in 1..(i - 1) : t[j] # marker
    ELSE -1

\* a plausible slip: the beta-is-full markers tested first
ClassifyFullFirst(t) ==
    IF Contains(t, FullMarker) \/ Contains(t, NotAcceptingMarker) THEN "full"
    ELSE IF Contains(t, ViewMarker) /\ Contains(t, TestingMarker)
         THEN IF Find(t, ViewMarker) < Find(t, TestingMarker) THEN "available" ELSE "full"
         ELSE "unknown"

Classify(t) ==
    IF Contains(t, ViewMarker) /\ Contains(t, TestingMarker)
    THEN LET view_index == Find(t, ViewMarker)
             testing_index == Find(t, TestingMarker)
         IN  IF view_index < testing_index THEN "available" ELSE "full"
    ELSE IF Contains(t, FullMarker) \/ Contains(t, NotAcceptingMarker)
         THEN "full"
         ELSE "unknown"

\* the pages the poller meets in the poll model: one per decision of Classify
Pages == { <<ViewMarker, TestingMarker>>, <<TestingMarker, ViewMarker>>,
           <<FullMarker>>, <<OtherText>> }

-----------------------------------------------------------------------------
(* HTTP: requests.get / requests.post seen through make_safe_request *)

\* what one HTTP request can end in: a transport failure or a final status
GetOutcomes == {"timeout", "network", "http200", "http3xx", "http4xx", "http5xx"}

PostOutcomes == {"network", "http204", "http200", "http4xx"}

\* response.raise_for_status(): raises HTTPError for a 4xx or 5xx status only
RaisesForStatus(outcome) == outcome \in {"http4xx", "http5xx"}

\* a plausible slip: response.raise_for_status() left out
MakeSafeRequestNoRaise(outcome) ==
    IF outcome \in {"timeout", "network"} THEN "None" ELSE "response"

\* make_safe_request: the response, or None on any RequestException
MakeSafeRequest(outcome) ==
    IF outcome \in {"timeout", "network"} \/ RaisesForStatus(outcome)
    THEN "None"
    ELSE "response"

-----------------------------------------------------------------------------
(* Notifications *)

\* the f-strings of lines 156 and 159, as the sequence of their parts
Message(kind, app_name, testflight_url) ==
    IF kind = "AVAILABLE"
    THEN <<"TestFlight slots for", app_name, "are", "AVAILABLE", "- Web Link:", testflight_url>>
    ELSE <<"TestFlight slot for", app_name, "is", "FILLED", "- Web Link:", testflight_url>>

\* a plausible slip: a failed POST is sent a second time
SendDiscordNotificationRetry(webhookSet, message, outcome) ==
    IF webhookSet
    THEN IF MakeSafeRequest(outcome) = "None"
         THEN << [content |-> message, outcome |-> outcome, sent |-> FALSE],
                 [content |-> message, outcome |-> outcome, sent |-> FALSE] >>
         ELSE << [content |-> message, outcome |-> outcome, sent |-> TRUE] >>
    ELSE <<>>

\* send_discord_notification: the POSTs it makes (none without a webhook URL)
SendDiscordNotification(webhookSet, message, outcome) ==
    IF webhookSet
    THEN << [content |-> message, outcome |-> outcome,
             sent |-> (MakeSafeRequest(outcome) # "None")] >>
    ELSE <<>>

\* a plausible slip: the `and last_state == "available"` of line 157 dropped
NotifyKindAnyFull(last_state, cur) ==
    IF cur # last_state
    THEN IF cur = "available" THEN "AVAILABLE"
         ELSE IF cur = "full" THEN "FILLED"
         ELSE "none"
    ELSE "none"

\* lines 153-161: which notification, if any, a classified state asks for
NotifyKind(last_state, cur) ==
    IF cur # last_state
    THEN IF cur = "available" THEN "AVAILABLE"
         ELSE IF cur = "full" /\ last_state = "available" THEN "FILLED"
         ELSE "none"
    ELSE "none"

\* a plausible slip: the state recorded only when a notification was due
UpdatedStateOnNotify(last_state, cur) ==
    IF NotifyKind(last_state, cur) # "none" THEN cur ELSE last_state

\* lines 153, 163: app_data["last_state"] after the comparison
UpdatedState(last_state, cur) ==
    IF cur # last_state THEN cur ELSE last_state

\* a plausible slip: only the errors of requests caught
CaughtRequestErrorsOnly(exception) == exception = "RequestException"

\* lines 167-168: `except Exception` catches whatever the body raised
Caught(exception) == exception \in {"RequestException", "KeyError", "TypeError"}

\* check_testflight_slot on a structured entry, for one fetch outcome, page and
\* POST outcome: the entry afterwards, the classified state ("none" when the
\* function returned before classifying), the calls of
\* send_discord_notification, the POSTs made, and whether an exception
\* left the function.  An entry without a url raises KeyError at line 130.
CheckTestflightSlot(app_data, webhookSet, fetch, page, post) ==
    IF app_data.form = "nourl"
    THEN [app_data |-> app_data, cur |-> "none", calls |-> 0, posts |-> <<>>,
          raised |-> ~Caught("KeyError")]
    ELSE IF MakeSafeRequest(fetch) = "None"
    THEN [app_data |-> app_data, cur |-> "none", calls |-> 0, posts |-> <<>>,
          raised |-> FALSE]
    ELSE LET cur  == Classify(page)
             kind == NotifyKind(app_data.last_state, cur)
         IN  [ app_data |-> [app_data EXCEPT !.last_state = UpdatedState(@, cur)],
               cur      |-> cur,
               raised   |-> FALSE,
               calls    |-> IF kind = "none" THEN 0 ELSE 1,
               posts    |-> IF kind = "none" THEN <<>>
                            ELSE SendDiscordNotification(webhookSet,
                                     Message(kind, app_data.name, app_data.url), post) ]

-----------------------------------------------------------------------------
(* The storage file *)

Names == {"AppX", "AppY"}

UrlOf(name) == IF name = "AppX" THEN "https://testflight.apple.com/join/x"
               ELSE "https://testflight.apple.com/join/y"

StoredStates == {"null", "available", "full", "unknown"}

\* json.dump / json.load of one value of last_state
DumpState(s) == IF s = "None" THEN "null" ELSE s

\* a plausible slip: null read as the state unknown
LoadStateNullAsUnknown(s) == IF s = "null" THEN "unknown" ELSE s

LoadState(s) == IF s = "null" THEN "None" ELSE s

\* json.dump(apps, file, indent=4) and json.load(file)
JsonDump(m) == [i \in 1..Len(m) |-> [m[i] EXCEPT !.last_state = DumpState(@)]]
JsonLoad(d) == [i \in 1..Len(d) |-> [d[i] EXCEPT !.last_state = LoadState(@)]]

Absent == [kind |-> "absent", data |-> <<>>]
Corrupt == [kind |-> "corrupt", data |-> <<>>]
JsonFile(m) == [kind |-> "json", data |-> JsonDump(m)]

\* the entries a stored map may hold for one name
StoredEntries(name) ==
    {[name |-> name, form |-> "str", url |-> UrlOf(name), last_state |-> "null"]}
    \cup {[name |-> name, form |-> "dict", url |-> UrlOf(name), last_state |-> s] :
             s \in StoredStates}
    \cup {[name |-> name, form |-> "nourl", url |-> "none", last_state |-> "null"]}

AllMaps ==
    {<<>>}
    \cup UNION {{<<e>> : e \in StoredEntries(n)} : n \in Names}
    \cup {<<e, f>> : e \in UNION {StoredEntries(n) : n \in Names},
                     f \in UNION {StoredEntries(n) : n \in Names}}

InitMaps ==
    {m \in AllMaps : \A i, j \in 1..Len(m) : m[i].name = m[j].name => i = j}

\* every entry of a map is a bare URL string or a structured entry
WellFormed(m) == \A i \in 1..Len(m) : m[i].form \in {"str", "dict"}

InitFiles == {Absent, Corrupt} \cup {[kind |-> "json", data |-> d] : d \in InitMaps}

\* load_config(file_path, default_content={}) of the poller; the open(..., 'w')
\* of line 89 raises PermissionError, which line 95 does not catch
LoadConfig(f, canWrite) ==
    IF f.kind = "absent"
    THEN IF canWrite THEN [ret |-> <<>>, file |-> JsonFile(<<>>), raised |-> FALSE]
         ELSE [ret |-> <<>>, file |-> f, raised |-> TRUE]
    ELSE IF f.kind = "json" THEN [ret |-> JsonLoad(f.data), file |-> f, raised |-> FALSE]
    ELSE [ret |-> <<>>, file |-> f, raised |-> FALSE]

\* load_apps() of the manager
LoadApps(f) ==
    IF f.kind = "absent" THEN [ret |-> <<>>, file |-> JsonFile(<<>>)]
    ELSE IF f.kind = "json" THEN [ret |-> JsonLoad(f.data), file |-> f]
    ELSE [ret |-> <<>>, file |-> JsonFile(<<>>)]

\* no manager operation is in hand and none has been performed
NoOp == [kind |-> "none", name |-> "", url |-> "none", answer |-> "none"]
NoReport == [kind |-> "none", name |-> "", ok |-> FALSE, posts |-> 0]
ManagerIdle ==
    /\ mpc = "menu"
    /\ mapps = <<>>
    /\ op = NoOp
    /\ report = NoReport
    /\ given = <<>>
    /\ ops = 0

-----------------------------------------------------------------------------
(* The poller: main *)

NoTick == [cycle |-> 0, name |-> "none", url |-> "none", prev |-> "none",
           fetch |-> "none", cur |-> "none", calls |-> 0, posts |-> <<>>,
           since |-> -1, owed |-> "none"]

\* lines 185-187: a bare URL string becomes a structured entry
Normalize(app_data) ==
    IF app_data.form = "str"
    THEN [name |-> app_data.name, form |-> "dict", url |-> app_data.url,
          last_state |-> "None"]
    ELSE app_data

\* a plausible slip: save_apps called inside the for loop
AfterTargetSaveEach(i, n) == "save"

\* lines 183-192: after the i-th of n targets the loop goes on, or falls
\* through to save_apps
AfterTarget(i, n) == IF i < n THEN "check" ELSE "save"

InitPoller ==
    /\ file \in InitFiles
    /\ webhook \in BOOLEAN
    /\ apps = <<>>
    /\ pc = "start"
    /\ idx = 1
    /\ status = "running"
    /\ now = 0
    /\ cycle = 0
    /\ tick = NoTick
    /\ processed = <<>>
    /\ writes = 0
    /\ lastSentAt = [n \in Names |-> -1]
    /\ undelivered = [n \in Names |-> "none"]
    /\ writable \in BOOLEAN
    \* a store that cannot be written is explored with at most one target
    /\ writable \/ file.kind # "json" \/ Len(file.data) <= 1
    /\ prevApps = <<>>
    /\ text = <<>>
    /\ current_state = "none"

\* the poller with the manager at rest
Init == InitPoller /\ ManagerIdle /\ pm2 = TRUE

\* a plausible slip: the loop is entered whatever was loaded
NoAppsNever(loaded) == FALSE

\* line 176: `if not apps`
NoApps(loaded) == loaded = <<>>

\* lines 174-180: load the map; exit with status 0 when it is empty
Load ==
    /\ status = "running" /\ pc = "start"
    /\ cycle < MaxCycles
    /\ LET r == LoadConfig(file, writable)
       IN  /\ apps' = r.ret
           /\ file' = r.file
           /\ IF r.raised
              THEN status' = "crashed" /\ pc' = "done" /\ cycle' = cycle
              ELSE IF NoApps(r.ret)
              THEN status' = "exit0" /\ pc' = "done" /\ cycle' = cycle
              ELSE status' = status /\ pc' = "check" /\ cycle' = cycle + 1
           /\ prevApps' = IF r.raised \/ NoApps(r.ret) THEN <<>> ELSE prevApps
    /\ idx' = 1
    /\ UNCHANGED <<webhook, now, tick, processed, writes, lastSentAt,
                   undelivered, writable, text, current_state, mvars>>

\* what the outside world answers during one pass of the loop body: the
\* outcome of the GET, the page when there is a response, and the outcome of
\* the POST when one is made
Answers(app_data) ==
    IF app_data.form = "nourl"
    THEN {[fetch |-> "none", page |-> <<>>, post |-> "none"]}
    ELSE
    UNION { IF MakeSafeRequest(fetch) = "None"
            THEN {[fetch |-> fetch, page |-> <<>>, post |-> "none"]}
            ELSE UNION { IF webhook /\ NotifyKind(app_data.last_state, Classify(page)) # "none"
                         THEN {[fetch |-> fetch, page |-> page, post |-> post] :
                                  post \in PostOutcomes}
                         ELSE {[fetch |-> fetch, page |-> page, post |-> "none"]} :
                         page \in Pages } :
            fetch \in GetOutcomes }

\* lines 183-190: one pass of the for loop body, check_testflight_slot included
Check ==
    /\ status = "running" /\ pc = "check" /\ idx <= Len(apps)
    /\ LET app_data == Normalize(apps[idx])
           n == app_data.name
       IN  \E a \in Answers(app_data) :
             LET r == CheckTestflightSlot(app_data, webhook, a.fetch, a.page, a.post)
                 \* the provider accepted the message (204 No Content)
                 delivered == r.posts # <<>> /\ r.posts[Len(r.posts)].outcome = "http204"
                 \* the POST came back as None
                 failed == r.posts # <<>> /\ ~r.posts[Len(r.posts)].sent
             IN  /\ apps' = [apps EXCEPT ![idx] = r.app_data]
                 /\ tick' = [cycle |-> cycle, name |-> n, url |-> app_data.url,
                             prev |-> app_data.last_state, fetch |-> a.fetch,
                             cur |-> r.cur, calls |-> r.calls, posts |-> r.posts,
                             since |-> IF lastSentAt[n] = -1 THEN -1
                                       ELSE now - lastSentAt[n],
                             owed |-> undelivered[n]]
                 /\ lastSentAt' = IF delivered THEN [lastSentAt EXCEPT ![n] = now]
                                  ELSE lastSentAt
                 /\ undelivered' =
                      IF r.cur = "none" THEN undelivered
                      ELSE IF failed THEN [undelivered EXCEPT ![n] = r.cur]
                      ELSE IF delivered \/ r.cur # app_data.last_state
                           THEN [undelivered EXCEPT ![n] = "none"]
                           ELSE undelivered
                 /\ processed' = Append(processed, n)
                 /\ status' = IF r.raised THEN "crashed" ELSE status
    /\ pc' = AfterTarget(idx, Len(apps))
    /\ idx' = idx + 1
    /\ UNCHANGED <<file, webhook, now, cycle, writes, writable, prevApps, text,
                   current_state, mvars>>

\* line 102: open(CONFIG_FILE_PATH, "w") truncates the file
\* when it raises, line 105 catches the error and save_apps returns
SaveOpen ==
    /\ status = "running" /\ pc = "save"
    /\ file' = IF writable THEN Corrupt ELSE file
    /\ writes' = writes + 1
    /\ pc' = IF writable THEN "dump" ELSE "sleep"
    /\ prevApps' = <<>>
    /\ UNCHANGED <<apps, idx, status, webhook, now, cycle, tick, processed,
                   lastSentAt, undelivered, writable, text, current_state, mvars>>

\* lines 103-104: json.dump and the close of the file
SaveDump ==
    /\ status = "running" /\ pc = "dump"
    /\ file' = JsonFile(apps)
    /\ pc' = "sleep"
    /\ UNCHANGED <<apps, idx, status, webhook, now, cycle, tick, processed,
                   writes, lastSentAt, undelivered, writable, prevApps, text,
                   current_state, mvars>>

\* a plausible slip: the cycle after the sleep resumes behind the first target
SleepSkipFirst ==
    /\ status = "running" /\ pc = "sleep"
    /\ cycle < MaxCycles
    /\ now' = now + CHECK_INTERVAL
    /\ cycle' = cycle + 1
    /\ pc' = AfterTarget(1, Len(apps))
    /\ idx' = 2
    /\ processed' = <<apps[1].name>>
    /\ writes' = 0
    /\ UNCHANGED <<file, apps, status, webhook, tick, lastSentAt, undelivered,
                   writable, prevApps, text, current_state, mvars>>

\* line 193 and the return to line 183: sleep, then the next cycle
Sleep ==
    /\ status = "running" /\ pc = "sleep"
    /\ cycle < MaxCycles
    /\ now' = now + CHECK_INTERVAL
    /\ cycle' = cycle + 1
    /\ pc' = "check"
    /\ idx' = 1
    /\ processed' = <<>>
    /\ writes' = 0
    /\ UNCHANGED <<file, apps, status, webhook, tick, lastSentAt, undelivered,
                   writable, prevApps, text, current_state, mvars>>

\* a termination signal: the poller installs no handler, and no except clause
\* of it catches KeyboardInterrupt, so the process ends where it is
Terminate ==
    /\ status = "running" /\ pc \in {"check", "save", "dump", "sleep"}
    /\ status' = "killed"
    /\ UNCHANGED <<file, apps, pc, idx, webhook, now, cycle, tick, processed,
                   writes, lastSentAt, undelivered, writable, prevApps, text,
                   current_state, mvars>>

\* the process supervisor starts the poller again (pm2 start / pm2 restart of
\* start_checker and restart_checker): a new process, with nothing in memory
Start ==
    /\ status \in {"killed", "exit0", "crashed"}
    /\ status' = "running"
    /\ pc' = "start"
    /\ prevApps' = IF status = "killed" /\ pc = "sleep" THEN apps ELSE <<>>
    /\ apps' = <<>>
    /\ idx' = 1
    /\ tick' = NoTick
    /\ processed' = <<>>
    /\ writes' = 0
    /\ UNCHANGED <<file, webhook, now, cycle, lastSentAt, undelivered, writable,
                   text, current_state, mvars>>

Next ==
    \/ Load
    \/ Check
    \/ SaveOpen
    \/ SaveDump
    \/ Sleep
    \/ Terminate

Spec == Init /\ [][Next]_vars

(***************************************************************************)
(* The poller under its supervisor: stopped and started again.  One        *)
(* target, so that the runs before and after a restart can be compared.    *)
(***************************************************************************)
InitRestart ==
    /\ Init
    /\ file.kind = "json" /\ Len(file.data) = 1

NextRestart ==
    \/ Load
    \/ Check
    \/ SaveOpen
    \/ SaveDump
    \/ Sleep
    \/ Terminate
    \/ Start

SpecRestart == InitRestart /\ [][NextRestart]_vars

-----------------------------------------------------------------------------
(* The manager: save_apps and load_apps *)

\* the maps a process may hold in memory: last_state None where the file has
\* null
MemoryMaps ==
    {[i \in 1..Len(d) |->
        [d[i] EXCEPT !.last_state = IF @ = "null" THEN "None" ELSE @]] :
     d \in InitMaps}

\* manager line 104: open(CONFIG_FILE_PATH, "w") truncates the file; the
\* manager's save_apps has no try, so a PermissionError ends the manager
ManagerSaveOpen ==
    /\ mpc = "save"
    /\ file' = IF writable THEN Corrupt ELSE file
    /\ mpc' = IF writable THEN "dump" ELSE "crashed"
    /\ UNCHANGED <<apps, pc, idx, status, webhook, now, cycle, tick, processed,
                   writes, lastSentAt, undelivered, writable, prevApps, text,
                   current_state, mapps, op, pm2, report, given, ops>>

\* manager line 105: json.dump(apps, file, indent=4); add_app and remove_app
\* go on to restart_checker
ManagerSaveDump ==
    /\ mpc = "dump"
    /\ file' = JsonFile(mapps)
    /\ mpc' = IF op.kind \in {"add", "remove"} THEN "restart" ELSE "saved"
    /\ UNCHANGED <<apps, pc, idx, status, webhook, now, cycle, tick, processed,
                   writes, lastSentAt, undelivered, writable, prevApps, text,
                   current_state, mapps, op, pm2, report, given, ops>>

-----------------------------------------------------------------------------
(* The manager: add_app, remove_app, restart_checker *)

\* what the user may type as an app name, and str.strip() of it
NameInputs == {"", "  ", "AppX", " AppY "}
Strip(typed) ==
    IF typed = "  " THEN "" ELSE IF typed = " AppY " THEN "AppY" ELSE typed

\* what the user may type as a URL, stripped: a prefix and the invitation
\* code behind it
JoinPrefix == "https://testflight.apple.com/join/"
UrlInputs ==
    {[prefix |-> p, code |-> c] :
        p \in {JoinPrefix, "http://testflight.apple.com/join/", ""},
        c \in {"x", "y"}}
StartsWith(typed, prefix) == typed.prefix = prefix

\* the string of a typed URL, as it is stored
UrlString(typed) ==
    IF typed.prefix = JoinPrefix
    THEN IF typed.code = "x" THEN UrlOf("AppX") ELSE UrlOf("AppY")
    ELSE "other"

\* a plausible slip: the URL is not tested
AddAppInputAnyUrl(app_name, testflight_url) == app_name # ""

\* lines 120-128: the two tests of add_app on its inputs
AddAppInputOk(app_name, testflight_url) ==
    /\ app_name # ""
    /\ StartsWith(testflight_url, JoinPrefix)

\* a plausible slip: an existing entry keeps what it has and gets the new url
MapSetKeepState(m, app_name, url) ==
    LET e == [name |-> app_name, form |-> "str", url |-> url,
              last_state |-> "None"]
    IN  IF \E i \in 1..Len(m) : m[i].name = app_name
        THEN [i \in 1..Len(m) |->
                IF m[i].name = app_name /\ m[i].form = "str" THEN e
                ELSE IF m[i].name = app_name THEN [m[i] EXCEPT !.url = url]
                ELSE m[i]]
        ELSE Append(m, e)

\* apps[app_name] = testflight_url on a dict: an existing key keeps its
\* place, a new key goes to the end; the value is the bare string
MapSet(m, app_name, url) ==
    LET e == [name |-> app_name, form |-> "str", url |-> url,
              last_state |-> "None"]
    IN  IF \E i \in 1..Len(m) : m[i].name = app_name
        THEN [i \in 1..Len(m) |-> IF m[i].name = app_name THEN e ELSE m[i]]
        ELSE Append(m, e)

\* del apps[app_name] with app_name the k-th key
MapDel(m, k) == [i \in 1..(Len(m) - 1) |-> IF i < k THEN m[i] ELSE m[i + 1]]

\* load_apps() writes the file when it is absent or unparseable
LoadWrites(f) == f.kind # "json"

\* lines 118-133 of add_app, up to the call of save_apps, for the given
\* things typed
AddAppTyping(typedNames, typedUrls) ==
    /\ mpc = "menu" /\ ops < MaxOps
    /\ ops' = ops + 1
    /\ \E typedName \in typedNames, typedUrl \in typedUrls :
         LET app_name == Strip(typedName)
             loaded   == LoadApps(file)
         IN  /\ op' = [kind |-> "add", name |-> app_name, url |-> typedUrl,
                       answer |-> "none"]
             /\ IF ~AddAppInputOk(app_name, typedUrl)
                THEN /\ report' = [kind |-> "add", name |-> app_name,
                                   ok |-> FALSE, posts |-> 0]
                     /\ UNCHANGED <<file, mpc, mapps, given>>
                ELSE IF LoadWrites(file) /\ ~writable
                THEN /\ mpc' = "crashed"
                     /\ UNCHANGED <<file, mapps, given, report>>
                ELSE /\ file' = loaded.file
                     /\ given' = loaded.ret
                     /\ mapps' = MapSet(loaded.ret, app_name, UrlString(typedUrl))
                     /\ mpc' = "save"
                     /\ UNCHANGED report
    /\ UNCHANGED <<apps, pc, idx, status, webhook, now, cycle, tick, processed,
                   writes, lastSentAt, undelivered, writable, prevApps, text,
                   current_state, pm2>>

AddApp == AddAppTyping(NameInputs, UrlInputs)

\* lines 138-163 of remove_app, up to the call of save_apps; the choice is the
\* letter A, B or C, given as its position in the alphabet
RemoveAppTyping(choices) ==
    /\ mpc = "menu" /\ ops < MaxOps
    /\ ops' = ops + 1
    /\ \E choice \in choices :
         LET loaded == LoadApps(file)
         IN  IF LoadWrites(file) /\ ~writable
             THEN /\ mpc' = "crashed"
                  /\ op' = [NoOp EXCEPT !.kind = "remove"]
                  /\ UNCHANGED <<file, mapps, given, report>>
             ELSE /\ file' = loaded.file
                  /\ given' = loaded.ret
                  /\ IF loaded.ret = <<>> \/ choice > Len(loaded.ret)
                     THEN /\ op' = [NoOp EXCEPT !.kind = "remove"]
                          /\ report' = [kind |-> "remove", name |-> "",
                                        ok |-> FALSE, posts |-> 0]
                          /\ UNCHANGED <<mpc, mapps>>
                     ELSE /\ op' = [NoOp EXCEPT !.kind = "remove",
                                               !.name = loaded.ret[choice].name]
                          /\ mapps' = MapDel(loaded.ret, choice)
                          /\ mpc' = "save"
                          /\ UNCHANGED report
    /\ UNCHANGED <<apps, pc, idx, status, webhook, now, cycle, tick, processed,
                   writes, lastSentAt, undelivered, writable, prevApps, text,
                   current_state, pm2>>

RemoveApp == RemoveAppTyping(1..3)

\* lines 221-244, called last by add_app and remove_app: without pm2 the
\* function returns; with it, `pm2 restart` ends the poller process and starts
\* a new one.  The file exists here, so line 243 writes nothing.  The
\* operation returns to the menu and its local map is gone.
RestartChecker ==
    /\ mpc = "restart"
    /\ mpc' = "menu"
    /\ mapps' = <<>>
    /\ given' = <<>>
    /\ report' = [kind |-> op.kind, name |-> op.name, ok |-> TRUE, posts |-> 0]
    /\ IF pm2
       THEN /\ status' = "running"
            /\ pc' = "start"
            /\ apps' = <<>>
            /\ idx' = 1
            /\ tick' = NoTick
            /\ processed' = <<>>
            /\ writes' = 0
            /\ prevApps' = <<>>
       ELSE UNCHANGED <<status, pc, apps, idx, tick, processed, writes, prevApps>>
    /\ UNCHANGED <<file, webhook, now, cycle, lastSentAt, undelivered, writable,
                   text, current_state, op, pm2, ops>>

\* the manager alone: the poller is not running
InitManager ==
    /\ file \in InitFiles
    /\ writable \in BOOLEAN
    /\ pm2 \in BOOLEAN
    /\ status = "stopped"
    /\ pc = "done"
    /\ webhook \in BOOLEAN
    /\ apps = <<>>
    /\ idx = 1
    /\ now = 0
    /\ cycle = 0
    /\ tick = NoTick
    /\ processed = <<>>
    /\ writes = 0
    /\ lastSentAt = [n \in Names |-> -1]
    /\ undelivered = [n \in Names |-> "none"]
    /\ prevApps = <<>>
    /\ text = <<>>
    /\ current_state = "none"
    /\ mpc = "menu"
    /\ mapps = <<>>
    /\ op = NoOp
    /\ report = NoReport
    /\ given = <<>>
    /\ ops = 0

NextManager ==
    \/ AddApp
    \/ RemoveApp
    \/ ManagerSaveOpen
    \/ ManagerSaveDump
    \/ RestartChecker

SpecManager == InitManager /\ [][NextManager]_vars

-----------------------------------------------------------------------------
(* The poller and the manager, two processes on one storage file *)

\* the poller is started over a file with one target and without a webhook;
\* pm2 is installed or not
InitSystem ==
    /\ InitPoller
    /\ writable /\ ~webhook
    /\ file.kind = "json" /\ Len(file.data) = 1 /\ WellFormed(file.data)
    /\ ManagerIdle
    /\ pm2 \in BOOLEAN

\* the user adds AppY, or AppX anew, with a URL that passes the test
AddAppValid ==
    AddAppTyping({"AppX", " AppY "}, {[prefix |-> JoinPrefix, code |-> "y"]})

\* the user removes the first or the second app of the list
RemoveAppFirst == RemoveAppTyping(1..2)

NextSystem ==
    \/ Load
    \/ Check
    \/ SaveOpen
    \/ SaveDump
    \/ Sleep
    \/ AddAppValid
    \/ RemoveAppFirst
    \/ ManagerSaveOpen
    \/ ManagerSaveDump
    \/ RestartChecker

SpecSystem == InitSystem /\ [][NextSystem]_vars

-----------------------------------------------------------------------------
(* A target added again: the manager first, then the poller it starts, up  *)
(* to the sleep that ends the first cycle after each start                 *)

\* the poller is not running; the file holds AppX, classified available, and
\* may hold AppY behind it; a webhook is set and pm2 is installed
InitReadd ==
    /\ InitManager
    /\ writable /\ pm2 /\ webhook
    /\ file.kind = "json" /\ WellFormed(file.data) /\ file.data # <<>>
    /\ file.data[1] = [name |-> "AppX", form |-> "dict",
                       url |-> UrlOf("AppX"), last_state |-> "available"]

NextReadd ==
    \/ AddAppValid
    \/ ManagerSaveOpen
    \/ ManagerSaveDump
    \/ RestartChecker
    \/ Load
    \/ Check
    \/ SaveOpen
    \/ SaveDump

SpecReadd == InitReadd /\ [][NextReadd]_vars

-----------------------------------------------------------------------------
(* The manager: validate_discord_webhook *)

\* A candidate webhook URL is a prefix, then the characters up to the next
\* '/', then the characters behind it, each character given by its class.
WebhookPrefix == "https://discord.com/api/webhooks/"
IdChars == {"digit", "letter"}
TokenChars == {"letter", "digit", "underscore", "hyphen", "slash"}
WebhookInputs ==
    {[prefix |-> p, id |-> i, token |-> t] :
        p \in {WebhookPrefix, "http://discord.com/api/webhooks/",
               "https://discordapp.com/api/webhooks/"},
        i \in SeqsUpTo(IdChars, 2),
        t \in SeqsUpTo(TokenChars, 2)}

\* line 29 and lines 52-59: re.match of
\* ^https://discord\.com/api/webhooks/\d+/[A-Za-z0-9_-]+$
ValidateDiscordWebhookFormat(webhook_url) ==
    /\ webhook_url.prefix = WebhookPrefix
    /\ webhook_url.id # <<>>
    /\ \A k \in 1..Len(webhook_url.id) : webhook_url.id[k] = "digit"
    /\ webhook_url.token # <<>>
    /\ \A k \in 1..Len(webhook_url.token) :
          webhook_url.token[k] \in {"letter", "digit", "underscore", "hyphen"}

\* a plausible slip: every answer that is not an error counts, as in the poller
ValidateDiscordWebhookAnyAnswer(webhook_url, answer) ==
    IF ~ValidateDiscordWebhookFormat(webhook_url)
    THEN [ok |-> FALSE, posts |-> 0]
    ELSE [ok |-> answer \in {"http204", "http200"}, posts |-> 1]

\* lines 61-81: the return value and the number of POSTs made, for one
\* answer to requests.post; a RequestException is caught at line 79
ValidateDiscordWebhook(webhook_url, answer) ==
    IF ~ValidateDiscordWebhookFormat(webhook_url)
    THEN [ok |-> FALSE, posts |-> 0]
    ELSE [ok |-> answer = "http204", posts |-> 1]

\* the answers requests.post may get for a candidate; there is none to a
\* request that is not made
ValidateAnswers(webhook_url) ==
    IF ValidateDiscordWebhookFormat(webhook_url) THEN PostOutcomes ELSE {"none"}

\* a call of validate_discord_webhook
ValidateWebhook ==
    /\ mpc = "menu" /\ ops < MaxOps
    /\ ops' = ops + 1
    /\ \E webhook_url \in WebhookInputs :
       \E answer \in ValidateAnswers(webhook_url) :
         LET r == ValidateDiscordWebhook(webhook_url, answer)
         IN  /\ op' = [kind |-> "validate", name |-> "", url |-> webhook_url,
                       answer |-> answer]
             /\ report' = [kind |-> "validate", name |-> "", ok |-> r.ok,
                           posts |-> r.posts]
    /\ UNCHANGED <<file, apps, pc, idx, status, webhook, now, cycle, tick,
                   processed, writes, lastSentAt, undelivered, writable,
                   prevApps, text, current_state, mpc, mapps, pm2, given>>

InitValidate ==
    /\ InitManager
    /\ writable /\ pm2 /\ ~webhook
    /\ file.kind = "json" => Len(file.data) <= 1

NextValidate == ValidateWebhook

SpecValidate == InitValidate /\ [][NextValidate]_vars

-----------------------------------------------------------------------------
(* Storage alone: one process saves a map and loads it back *)

InitStore ==
    /\ given \in MemoryMaps
    /\ apps = given
    /\ mapps = given
    /\ file \in {Absent, Corrupt, JsonFile(<<>>)}
    /\ writable \in BOOLEAN
    /\ \/ pc = "save" /\ mpc = "menu" /\ op = NoOp
       \/ pc = "done" /\ mpc = "save" /\ op = [NoOp EXCEPT !.kind = "store"]
    /\ status = "running"
    /\ webhook = FALSE
    /\ idx = Len(apps) + 1
    /\ now = 0
    /\ cycle = 1
    /\ tick = NoTick
    /\ processed = [i \in 1..Len(apps) |-> apps[i].name]
    /\ writes = 0
    /\ lastSentAt = [n \in Names |-> -1]
    /\ undelivered = [n \in Names |-> "none"]
    /\ prevApps = <<>>
    /\ text = <<>>
    /\ current_state = "none"
    /\ pm2 = TRUE
    /\ report = NoReport
    /\ ops = 0

\* poller line 174: load_config(CONFIG_FILE_PATH, default_content={}) once the
\* save has returned
StoreLoadConfig ==
    /\ pc = "sleep"
    /\ apps' = LoadConfig(file, writable).ret
    /\ pc' = "loaded"
    /\ UNCHANGED <<file, idx, status, webhook, now, cycle, tick, processed,
                   writes, lastSentAt, undelivered, writable, prevApps, text,
                   current_state, mvars>>

\* manager lines 86-100: load_apps() once the save has returned
StoreLoadApps ==
    /\ mpc = "saved"
    /\ mapps' = LoadApps(file).ret
    /\ file' = LoadApps(file).file
    /\ mpc' = "loaded"
    /\ UNCHANGED <<apps, pc, idx, status, webhook, now, cycle, tick, processed,
                   writes, lastSentAt, undelivered, writable, prevApps, text,
                   current_state, op, pm2, report, given, ops>>

NextStore ==
    \/ SaveOpen
    \/ SaveDump
    \/ StoreLoadConfig
    \/ ManagerSaveOpen
    \/ ManagerSaveDump
    \/ StoreLoadApps

SpecStore == InitStore /\ [][NextStore]_vars

-----------------------------------------------------------------------------
(* The classifier alone, on every page text of up to MaxLen tokens *)

InitClassify ==
    /\ text \in Texts
    /\ current_state = "none"
    /\ file = Absent
    /\ webhook = FALSE
    /\ apps = <<>>
    /\ pc = "classify"
    /\ idx = 1
    /\ status = "running"
    /\ now = 0
    /\ cycle = 0
    /\ tick = NoTick
    /\ processed = <<>>
    /\ writes = 0
    /\ lastSentAt = [n \in Names |-> -1]
    /\ undelivered = [n \in Names |-> "none"]
    /\ writable = TRUE
    /\ prevApps = <<>>
    /\ ManagerIdle /\ pm2 = TRUE

\* lines 139-150 on the page at hand
ClassifyText ==
    /\ pc = "classify" /\ current_state = "none"
    /\ current_state' = Classify(text)
    /\ UNCHANGED <<file, apps, pc, idx, status, webhook, now, cycle, tick,
                   processed, writes, lastSentAt, undelivered, writable,
                   prevApps, text, mvars>>

\* the next page arrives
NextText ==
    /\ pc = "classify" /\ current_state # "none"
    /\ text' \in Texts
    /\ current_state' = "none"
    /\ UNCHANGED <<file, apps, pc, idx, status, webhook, now, cycle, tick,
                   processed, writes, lastSentAt, undelivered, writable,
                   prevApps, mvars>>

NextClassify ==
    \/ ClassifyText
    \/ NextText

SpecClassify == InitClassify /\ [][NextClassify]_vars

-----------------------------------------------------------------------------
(* Words of the claims *)

\* a slot opened, or a slot closed
NotifyWorthy(previous_state, new_state) ==
    \/ previous_state # "available" /\ new_state = "available"
    \/ previous_state = "available" /\ new_state = "full"

Ticked == tick.name # "none"

\* the last tick fetched a page and classified it
Classified == Ticked /\ tick.cur # "none"

\* the last tick's notification was delivered (the provider answered 204)
TickDelivered == \E i \in 1..Len(tick.posts) : tick.posts[i].outcome = "http204"

InMessage(message, part) == \E i \in 1..Len(message) : message[i] = part

\* last_state of the named target in the poller's map
MemoryState(name) ==
    LET i == CHOOSE j \in 1..Len(apps) : apps[j].name = name
    IN  apps[i].last_state

\* last_state of the named target in the storage file; null when the file
\* holds no state for it
FileState(name) ==
    IF file.kind = "json" /\ \E j \in 1..Len(file.data) : file.data[j].name = name
    THEN LET i == CHOOSE j \in 1..Len(file.data) : file.data[j].name = name
         IN  file.data[i].last_state
    ELSE "null"

-----------------------------------------------------------------------------
(* The claims *)

\* C1: a tick calls send_discord_notification only on a notify-worthy
\* transition (not available -> available, or available -> full); a tick
\* whose classified state equals the stored state, or whose fetch failed,
\* calls it not at all.
C1_NotifyOnlyWhenWorthy ==
    Ticked =>
        /\ tick.calls > 0 => NotifyWorthy(tick.prev, tick.cur)
        /\ tick.cur = tick.prev => tick.calls = 0
        /\ tick.posts # <<>> => tick.calls > 0

\* C1 witness: the tick after an AVAILABLE notification classifies as
\* available again and notifies nothing.
C1_Witness ==
    /\ Ticked /\ tick.prev = "available" /\ tick.cur = "available"
    /\ tick.calls = 0 /\ tick.since = CHECK_INTERVAL

\* C2 (as claimed): a notification is delivered for a target only if none was
\* delivered for it before or the last one is at least the cooldown (300 s)
\* old.
C2_OnePerCooldownWindow ==
    TickDelivered => tick.since = -1 \/ tick.since >= COOLDOWN

\* C3 (as claimed): while the dispatch for a state has failed and the target
\* still classifies to that state, every tick attempts the notification again.
C3_FailedDispatchRetried ==
    (Classified /\ tick.owed # "none" /\ tick.cur = tick.owed) => tick.calls > 0

\* C4 (as claimed): a tick whose fetch ended in a timeout, a network failure
\* or a status other than 2xx leaves the stored state as it was and notifies
\* nothing.
C4_FetchFailureNon2xx ==
    (Ticked /\ tick.fetch # "http200") =>
        /\ tick.calls = 0
        /\ MemoryState(tick.name) = tick.prev

\* C4, the part of it the poller keeps: the same for a timeout, a network
\* failure and a 4xx or 5xx status; and the poller then stands at the next
\* target, or at the save when the target was the last.
C4_FetchFailureRaised ==
    (Ticked /\ tick.fetch \in {"timeout", "network", "http4xx", "http5xx"}) =>
        /\ tick.cur = "none"
        /\ tick.calls = 0
        /\ MemoryState(tick.name) = tick.prev
        /\ pc \in {"check", "save", "dump", "sleep"}
        /\ (pc = "check" /\ tick.cycle = cycle) =>
               /\ idx <= Len(apps)
               /\ apps[idx - 1].name = tick.name

\* C5: with a webhook set, a tick with a notify-worthy transition makes
\* exactly one POST, whose message holds the target's URL and AVAILABLE (slot
\* opened) or FILLED (available -> full); no tick makes more than one POST.
C5_ExactlyOneNotification ==
    Ticked =>
        /\ Len(tick.posts) <= 1
        /\ (webhook /\ Classified /\ NotifyWorthy(tick.prev, tick.cur)) =>
               /\ Len(tick.posts) = 1
               /\ InMessage(tick.posts[1].content, tick.url)
               /\ tick.cur = "available" =>
                      InMessage(tick.posts[1].content, "AVAILABLE")
               /\ tick.cur = "full" =>
                      InMessage(tick.posts[1].content, "FILLED")

\* C5 witness: a target with no prior state classifies as available and one
\* AVAILABLE message is posted, the first notification of the target.
C5_Witness ==
    /\ Ticked /\ tick.prev = "None" /\ tick.cur = "available"
    /\ tick.since = -1 /\ Len(tick.posts) = 1
    /\ InMessage(tick.posts[1].content, "AVAILABLE")

\* C6: after a tick that classified the page, the target's state in the map
\* is the classified state, whatever became of the notification.
C6_StateFollowsClassification ==
    Classified => MemoryState(tick.name) = tick.cur

\* C6 witness: no webhook is set, the transition is notify-worthy, the
\* dispatch is skipped and the state is updated all the same.
C6_Witness ==
    /\ ~webhook /\ Classified /\ NotifyWorthy(tick.prev, tick.cur)
    /\ tick.calls = 1 /\ tick.posts = <<>>
    /\ MemoryState(tick.name) = tick.cur

\* C7: the classifier's result is available, full or unknown; with both the
\* View and the Testing marker it is available exactly when the first View is
\* strictly before the first Testing, else full, whatever else the text
\* holds; without both, it is full when a beta-is-full marker occurs, else
\* unknown.
C7_ClassifierRules ==
    current_state # "none" =>
        LET has(m) == \E i \in 1..Len(text) : text[i] = m
            both == has(ViewMarker) /\ has(TestingMarker)
            viewFirst == \E i \in 1..Len(text) :
                            /\ text[i] = ViewMarker
                            /\ \A j \in 1..i : text[j] # TestingMarker
            betaFull == has(FullMarker) \/ has(NotAcceptingMarker)
        IN  /\ current_state \in {"available", "full", "unknown"}
            /\ (both /\ viewFirst) => current_state = "available"
            /\ (both /\ ~viewFirst) => current_state = "full"
            /\ (~both /\ betaFull) => current_state = "full"
            /\ (~both /\ ~betaFull) => current_state = "unknown"

\* C7 witness: a text with View before Testing and a beta-is-full marker as
\* well is classified available.
C7_Witness ==
    /\ current_state = "available"
    /\ \E i \in 1..Len(text) : text[i] = FullMarker

\* C8: within a cycle the targets are checked one after the other, each once,
\* in the order of the map; save_apps is not called before the last of them
\* has been checked, and is called once after it.
C8_SaveOncePerCycleAfterAll ==
    pc \in {"check", "save", "dump", "sleep"} =>
        /\ processed = [i \in 1..(idx - 1) |-> apps[i].name]
        /\ writes = IF pc \in {"dump", "sleep"} THEN 1 ELSE 0
        /\ writes > 0 => Len(processed) = Len(apps)
        /\ pc # "check" => Len(processed) = Len(apps)

\* C8 witness: a cycle over two targets, the last of which failed to fetch,
\* has saved once.
C8_Witness ==
    /\ pc = "sleep" /\ writes = 1 /\ Len(processed) = 2
    /\ tick.fetch = "timeout" /\ tick.cycle = cycle

\* C9 (as claimed): when a termination signal has ended the poller, the
\* storage file is whole and holds every state the poller recorded.
C9_TerminationPersists ==
    status = "killed" =>
        /\ file.kind = "json"
        /\ \A i \in 1..Len(apps) :
               apps[i].form = "dict" =>
                   FileState(apps[i].name) = DumpState(apps[i].last_state)

\* C10 (as claimed): a load that finds the file absent or unparseable returns
\* the empty map and leaves a file that holds the empty object.
C10_LoadResetsStorage ==
    [][ (pc = "start" /\ pc' # "start" /\ file.kind \in {"absent", "corrupt"})
            => (apps' = <<>> /\ file' = JsonFile(<<>>)) ]_vars

\* C11: when the storage cannot be written the poller fails at startup and
\* never enters the polling loop: it is never checking targets, saving or
\* sleeping between cycles.
C11_UnwritableFatalAtStartup ==
    ~writable => pc \in {"start", "done"}

\* C12: whatever fails while one target is processed (fetch error, dispatch
\* error, an entry without a url), the poller keeps running, goes on to the
\* next target or, after the last one, to the save, and no other target's
\* entry changes; the save is reached only with every target processed.
C12_TargetErrorsIsolated ==
    /\ [](pc \in {"save", "dump"} =>
            processed = [i \in 1..Len(apps) |-> apps[i].name])
    /\ [][idx' = idx + 1 =>
            /\ status' = "running"
            /\ Len(apps') = Len(apps)
            /\ \A i \in 1..Len(apps) : i # idx => apps'[i] = apps[i]
            /\ pc' = IF idx < Len(apps) THEN "check" ELSE "save"
            /\ idx' <= Len(apps) =>
                  Answers(Normalize(apps'[idx'])) # {}]_vars

\* a cycle whose first target has no url and whose second target was
\* classified, notified (the POST failing) and saved
C12_Witness ==
    /\ pc = "sleep" /\ status = "running"
    /\ Len(apps) = 2 /\ apps[1].form = "nourl"
    /\ tick.name = apps[2].name /\ tick.cur = "available"
    /\ tick.posts # <<>> /\ tick.posts[1].outcome = "network"
    /\ file = JsonFile(apps)

\* the tick in hand is the first one of its target after a restart that
\* followed a completed cycle, and classifies the state the target had in the
\* poller's map when it was stopped
SameStateAfterRestart ==
    /\ Classified
    /\ \E i \in 1..Len(prevApps) :
          /\ prevApps[i].name = tick.name
          /\ prevApps[i].last_state = tick.cur

\* C13: stopped after a completed cycle and started again, the poller sends
\* no notification on the first tick of a target that classifies to the state
\* it had before the restart.
C13_StatePersistsAcrossRestart ==
    SameStateAfterRestart => tick.calls = 0

\* C13 where the storage can be written: the save of the completed cycle
\* reached the file, and the restarted poller compares with the saved state
C13_PersistsWhenWritable ==
    (writable /\ SameStateAfterRestart) => tick.calls = 0

\* C14: a POST of the dispatcher counts as a delivery exactly when the
\* provider answered 204; any other status and any transport error is a
\* failure, and a tick makes no second POST.
C14_DeliveredIff204 ==
    /\ Len(tick.posts) <= 1
    /\ \A i \in 1..Len(tick.posts) :
          tick.posts[i].sent <=> tick.posts[i].outcome = "http204"

\* the file holds a map whose entries are all structured, with the URL of
\* their target and a last_state of the stored vocabulary
PersistedStructured ==
    /\ file.kind = "json"
    /\ \A i \in 1..Len(file.data) :
          /\ file.data[i].form = "dict"
          /\ file.data[i].url = UrlOf(file.data[i].name)
          /\ file.data[i].last_state \in StoredStates

\* the targets checked so far in the cycle are structured in the poller's map,
\* and a bare string was checked with last_state None
NormalizedBeforeCheck ==
    /\ pc \in {"check", "save", "dump", "sleep"} =>
          \A i \in 1..Len(apps) : i < idx => apps[i].form # "str"
    /\ (Ticked /\ tick.cycle = 1 /\ file.kind = "json" /\ file.data # <<>>
          /\ \E i \in 1..Len(file.data) :
                file.data[i].name = tick.name /\ file.data[i].form = "str")
       => tick.prev = "None"

\* C15: a bare URL string is made a structured entry with last_state null
\* before it is checked, and once a cycle has completed every entry of the
\* persisted map is structured, with its original url and a last_state that
\* is null, available, full or unknown.
C15_NormalizedAndPersisted ==
    /\ NormalizedBeforeCheck
    /\ (pc = "sleep" /\ WellFormed(apps)) => PersistedStructured

\* C15 where the storage can be written
C15_PersistedWhenWritable ==
    /\ NormalizedBeforeCheck
    /\ (writable /\ pc = "sleep" /\ WellFormed(apps)) => PersistedStructured

\* the poller is inside its while loop
InLoop == pc \in {"check", "save", "dump", "sleep"}

\* C18: a running poller with targets never leaves its loop of its own
\* accord and skips nothing: a cycle reaches its end only with every target
\* checked, the end of a cycle is followed by a sleep of CHECK_INTERVAL, and
\* the sleep by a cycle that starts again at the first target of the same map.
C18_CyclesNeverStopOrSkip ==
    /\ []((status = "running" /\ InLoop) =>
            /\ apps # <<>>
            /\ pc = "check" => idx <= Len(apps)
            /\ pc = "sleep" => processed = [i \in 1..Len(apps) |-> apps[i].name])
    /\ [][(status = "running" /\ InLoop) =>
            /\ status' \in {"running", "killed"}
            /\ pc' \in {"check", "save", "dump", "sleep"}]_vars
    /\ [][(status = "running" /\ pc = "sleep" /\ pc' # "sleep") =>
            /\ status' = "running"
            /\ pc' = "check" /\ idx' = 1 /\ processed' = <<>>
            /\ cycle' = cycle + 1
            /\ now' = now + CHECK_INTERVAL
            /\ apps' = apps]_vars

\* the third full cycle over two targets, two sleeps after the first
C18_Witness ==
    /\ status = "running" /\ pc = "sleep"
    /\ cycle = MaxCycles /\ now = (MaxCycles - 1) * CHECK_INTERVAL
    /\ Len(processed) = 2 /\ tick.cycle = cycle

\* C17: a map that was saved and then loaded is the map that was given to the
\* save: the same names in the same order, each with its url, its form (bare
\* string or structured) and its state, None included.  A save that could
\* not write (logged by the poller, raised by the manager) saved nothing.
C17_SaveLoadRoundTrip ==
    /\ (pc = "loaded" /\ writable) => apps = given
    /\ mpc = "loaded" => mapps = given

\* a map with a bare string and a structured entry of state None, saved by
\* the poller and loaded back
C17_Witness ==
    /\ pc = "loaded" /\ writable /\ Len(given) = 2
    /\ given[1].form = "str"
    /\ given[2].form = "dict" /\ given[2].last_state = "None"
    /\ file = JsonFile(given)

\* add_app has passed the tests on its input and saved the map
Added == mpc = "restart" /\ op.kind = "add"

\* C16: add_app with an empty name or a URL without the prefix
\* 'https://testflight.apple.com/join/' leaves the file as it is; otherwise
\* the file afterwards holds exactly one entry for the name, the bare URL
\* (not yet classified), and the other entries of the map it loaded, no more
\* and unchanged.
C16_AddValidatesAndAddsOne ==
    /\ [][(op'.kind = "add" /\ ops' = ops + 1
            /\ (op'.name = "" \/ op'.url.prefix # JoinPrefix))
          => (file' = file /\ mpc' = "menu" /\ report'.kind = "add"
              /\ ~report'.ok)]_vars
    /\ [](Added =>
            /\ op.name # "" /\ op.url.prefix = JoinPrefix
            /\ file.kind = "json"
            /\ Cardinality({i \in 1..Len(file.data) :
                             file.data[i].name = op.name}) = 1
            /\ \A i \in 1..Len(file.data) :
                  IF file.data[i].name = op.name
                  THEN /\ file.data[i].form = "str"
                       /\ file.data[i].url = UrlString(op.url)
                  ELSE \E j \in 1..Len(given) :
                          file.data[i] = JsonDump(given)[j]
            /\ \A j \in 1..Len(given) :
                  given[j].name # op.name =>
                     \E i \in 1..Len(file.data) :
                        file.data[i] = JsonDump(given)[j])

\* AppY added next to a classified AppX, which is kept as it was
C16_Witness ==
    /\ Added /\ op.name = "AppY"
    /\ Len(file.data) = 2
    /\ file.data[1].name = "AppX" /\ file.data[1].last_state = "available"
    /\ file.data[2].form = "str"

\* C19: validate_discord_webhook returns True exactly when the URL has the
\* Discord webhook format and the test POST was answered 204; otherwise it
\* returns False, and comes back to the menu in every case; it makes no POST
\* when the format is wrong; and it changes neither the file nor a map.
C19_ValidateIffFormatAnd204 ==
    /\ [](op.kind = "validate" =>
            /\ mpc = "menu" /\ report.kind = "validate"
            /\ report.ok <=> (ValidateDiscordWebhookFormat(op.url)
                               /\ op.answer = "http204")
            /\ report.posts = IF ValidateDiscordWebhookFormat(op.url)
                              THEN 1 ELSE 0)
    /\ [][op'.kind = "validate" =>
            (file' = file /\ apps' = apps /\ mapps' = mapps)]_vars

\* a well-formed URL whose test POST was answered 200 is reported invalid,
\* over a file with a target
C19_Witness ==
    /\ op.kind = "validate" /\ ValidateDiscordWebhookFormat(op.url)
    /\ Len(op.url.id) = 2 /\ op.url.token = <<"underscore", "hyphen">>
    /\ op.answer = "http200" /\ ~report.ok /\ report.posts = 1
    /\ file.kind = "json" /\ Len(file.data) = 1

\* the names of a map
NamesOf(m) == {m[i].name : i \in 1..Len(m)}

\* C20: once add_app or remove_app has completed, the file holds the added
\* target (no longer holds the removed one) whenever it holds a map, and a
\* poller inside its loop works on the names the file holds.
C20_ManagerChangeNeverLost ==
    (mpc = "menu" /\ report.ok /\ file.kind = "json") =>
        /\ report.kind = "add" => report.name \in NamesOf(file.data)
        /\ report.kind = "remove" => report.name \notin NamesOf(file.data)
        /\ (status = "running" /\ InLoop) => NamesOf(apps) = NamesOf(file.data)

\* the first half of C20 alone: the file after the manager's operation
C20_FileKeepsChange ==
    (mpc = "menu" /\ report.ok /\ file.kind = "json") =>
        /\ report.kind = "add" => report.name \in NamesOf(file.data)
        /\ report.kind = "remove" => report.name \notin NamesOf(file.data)

\* the first half of C20 where the poller was restarted
C20_FileKeepsChangeWithRestart ==
    pm2 => C20_FileKeepsChange


\* C21: when the manager's add or remove has saved the map and the poller has
\* saved its own at the end of a cycle, the file holds, for every target the
\* operation does not name, the last_state the poller recorded: the manager's
\* save puts back no older one.
C21_ManagerKeepsPollerStates ==
    (mpc = "restart" /\ status = "running" /\ pc = "sleep"
        /\ file.kind = "json") =>
        \A i \in 1..Len(file.data), j \in 1..Len(apps) :
            (file.data[i].name = apps[j].name /\ apps[j].name # op.name) =>
                file.data[i].last_state = DumpState(apps[j].last_state)

\* the poller's map keeps its names while the poller is in its loop, and
\* only these names are checked
NamesFixedInLoop ==
    /\ [](InLoop => {processed[i] : i \in 1..Len(processed)} \subseteq NamesOf(apps))
    /\ [][(InLoop /\ pc' \in {"check", "save", "dump", "sleep"})
            => NamesOf(apps') = NamesOf(apps)]_vars

\* C22: a poller whose load_config returned an empty map (file absent,
\* unparseable or an empty object) ends at once with exit status 0, having
\* run no cycle, checked no target and saved nothing; otherwise it enters the
\* loop with the names of the file, keeps these names for as long as it
\* runs, checks only them and writes exactly them back.
C22_EmptyMapExitsNamesFixed ==
    /\ [][(pc = "start" /\ pc' # "start" /\ status' # "crashed") =>
            IF file.kind = "json" /\ file.data # <<>>
            THEN /\ pc' = "check" /\ status' = "running"
                 /\ NamesOf(apps') = NamesOf(file.data)
            ELSE /\ pc' = "done" /\ status' = "exit0"
                 /\ apps' = <<>>
                 /\ cycle' = cycle /\ tick' = tick
                 /\ processed' = processed /\ writes' = writes]_vars
    /\ [](status = "exit0" =>
            /\ pc = "done" /\ apps = <<>>
            /\ tick = NoTick /\ processed = <<>> /\ writes = 0)
    /\ NamesFixedInLoop
    /\ []((pc = "sleep" /\ writable) =>
            (file.kind = "json" /\ NamesOf(file.data) = NamesOf(apps)))

\* an unparseable file at startup: the poller has exited with status 0 and
\* has checked nothing
C22_Witness ==
    /\ status = "exit0" /\ pc = "done"
    /\ file.kind = "corrupt"
    /\ tick = NoTick /\ cycle = 0 /\ writes = 0

\* the entry of the named target in the file is a bare URL string
BareInFile(name) ==
    /\ file.kind = "json"
    /\ \E i \in 1..Len(file.data) :
          file.data[i].name = name /\ file.data[i].form = "str"

\* C23: add_app for a name the map already holds writes the map with that
\* entry replaced, in its place, by the bare URL, its last_state gone, and
\* every other entry as it was loaded; the poller restarted over this file
\* checks the target with last_state None, and a first classification as
\* available calls the dispatcher once, with the AVAILABLE message.
C23_ReaddForgetsStateAndRenotifies ==
    /\ [][(mpc = "dump" /\ mpc' = "restart" /\ op.kind = "add"
            /\ op.name \in NamesOf(given)) =>
            /\ file'.kind = "json" /\ Len(file'.data) = Len(given)
            /\ \A i \in 1..Len(given) :
                  IF given[i].name = op.name
                  THEN file'.data[i] =
                         [name |-> op.name, form |-> "str",
                          url |-> UrlString(op.url), last_state |-> "null"]
                  ELSE file'.data[i] = JsonDump(given)[i]]_vars
    /\ []((mpc = "menu" /\ report.kind = "add" /\ report.ok
            /\ BareInFile(report.name)
            /\ tick.name = report.name /\ tick.cur = "available") =>
            /\ tick.prev = "None"
            /\ tick.calls = 1
            /\ webhook =>
                  /\ Len(tick.posts) = 1
                  /\ InMessage(tick.posts[1].content, "AVAILABLE"))

\* AppX, stored as available, was added again; the restarted poller found it
\* available and the AVAILABLE notification was delivered a second time,
\* with AppY beside it
C23_Witness ==
    /\ mpc = "menu" /\ report.kind = "add" /\ report.name = "AppX"
    /\ BareInFile("AppX")
    /\ tick.name = "AppX" /\ tick.prev = "None" /\ tick.cur = "available"
    /\ tick.calls = 1 /\ tick.posts[1].outcome = "http204"
    /\ Len(apps) = 2 /\ apps[2].name = "AppY" /\ apps[2].last_state = "full"

=============================================================================
